---- MODULE Spec2Model ----
(***************************************************************************)
(* Model of the flaps machine-control client (src/src/api/flaps/mod.rs):   *)
(* the error classifier map_flaps_error, the request pipeline              *)
(* make_request_raw / make_machines_request, the long-poll wait and the    *)
(* retry loop wait_for_state.  Durations are integers in microseconds.     *)
(***************************************************************************)
EXTENDS Integers, Naturals, Sequences, FiniteSets, TLC

VARIABLES pc, call, req, nreq, cls, result, clock, backoff, end_time, delay, log,
          value, held, fan, answer, conv

vars == <<pc, call, req, nreq, cls, result, clock, backoff, end_time, delay, log,
          value, held, fan, answer, conv>>

(***************************************************************************)
(* Bounds of the model.                                                    *)
(***************************************************************************)
\* wait_for_state is called with timeouts of up to MaxTimeoutHalfSecs half seconds
MaxTimeoutHalfSecs == 6

(***************************************************************************)
(* Durations.                                                              *)
(***************************************************************************)
Millis(n) == n * 1000
Secs(n) == n * 1000000
AsSecs(d) == d \div 1000000
Min(a, b) == IF a <= b THEN a ELSE b
Max(a, b) == IF a >= b THEN a ELSE b
\* Duration::clamp
Clamp(d, lo, hi) == Max(lo, Min(d, hi))
\* Instant - Instant saturates at zero
SatSub(a, b) == IF a >= b THEN a - b ELSE 0

PROXY_TIMEOUT_THRESHOLD == Secs(60)

None == "None"

(***************************************************************************)
(* entities::machine::State and its wire name (serde kebab-case).          *)
(***************************************************************************)
State == {"Destroyed", "Destroying", "Started", "Stopped", "Created"}

StateName(s) ==
    CASE s = "Destroyed" -> "destroyed"
      [] s = "Destroying" -> "destroying"
      [] s = "Started" -> "started"
      [] s = "Stopped" -> "stopped"
      [] s = "Created" -> "created"

(***************************************************************************)
(* entities::machine::Machine and its predicates.                          *)
(***************************************************************************)
MACHINE_FLY_PLATFORM_VERSION_2 == "v2"
MACHINE_PROCESS_GROUP_FLY_APP_RELEASE_COMMAND == "fly_app_release_command"
MACHINE_PROCESS_GROUP_APP == "app"
MACHINE_PROCESS_GROUP_FLY_APP_CONSOLE == "fly_app_console"

\* entities::machine::Machine as far as the client reads it: the id, the state and
\* the metadata of the config (`metadata` is FALSE without config or metadata); of
\* the metadata the keys fly_process_group, process_group and fly_platform_version,
\* None for a key that is absent
MachineOf(id, state, metadata, fpg, pg, fpv) ==
    [id |-> id, state |-> state, metadata |-> metadata, fly_process_group |-> fpg,
     process_group |-> pg, fly_platform_version |-> fpv]

\* map_process_group's argument: the modern key, else the legacy key; None when
\* there is no metadata or neither key
process_group(m) ==
    IF ~m.metadata THEN None
    ELSE IF m.fly_process_group # None THEN m.fly_process_group
    ELSE m.process_group

has_process_group(m, group) == process_group(m) # None /\ process_group(m) = group

has_any_process_group(m, groups) == process_group(m) # None /\ process_group(m) \in groups

\* the legacy name not recognised
is_release_command_machine_ModernOnly(m) ==
    has_any_process_group(m, {MACHINE_PROCESS_GROUP_FLY_APP_RELEASE_COMMAND})
is_release_command_machine(m) ==
    has_any_process_group(m, {MACHINE_PROCESS_GROUP_FLY_APP_RELEASE_COMMAND, "release_command"})

is_apps_v2(m) ==
    m.metadata /\ m.fly_platform_version # None
    /\ m.fly_platform_version = MACHINE_FLY_PLATFORM_VERSION_2

\* Destroying counted as active
is_active_DestroyedOnly(m) == m.state # "Destroyed"
is_active(m) == m.state # "Destroyed" /\ m.state # "Destroying"

is_fly_apps_platform(m) == is_apps_v2(m) /\ is_active(m)

is_fly_apps_console(m) ==
    is_fly_apps_platform(m) /\ has_process_group(m, MACHINE_PROCESS_GROUP_FLY_APP_CONSOLE)

(***************************************************************************)
(* Response bodies.  A body is the JSON null, an empty body, a JSON object *)
(* that is no error envelope, a non-JSON text, or an error envelope        *)
(* {status_code, fly_request_id?, error, message?}.                        *)
(***************************************************************************)
\* MachineLease
LeaseOf(nonce, owner) == [nonce |-> nonce, owner |-> owner]
NoLease == LeaseOf(None, None)

\* what a JSON body decodes to: a list of machines (one machine for a single
\* Machine) or a lease
NoPayload == [machines |-> << >>, lease |-> NoLease]

BodyOf(kind, sc, rid, err, msg) ==
    [kind |-> kind, status_code |-> sc, fly_request_id |-> rid, error |-> err, message |-> msg,
     payload |-> NoPayload]

\* a JSON body of the shape `kind`: "machine", "machines", "lease", "start_response",
\* "exec_response", "processes"
JsonBody(kind, payload) ==
    [kind |-> kind, status_code |-> 0, fly_request_id |-> None, error |-> "", message |-> None,
     payload |-> payload]

NoBody == BodyOf("none", 0, None, "", None)
NullBody == BodyOf("null", 0, None, "", None)
EmptyBody == BodyOf("empty", 0, None, "", None)
OkObjectBody == BodyOf("object", 0, None, "", None)
TextBody == BodyOf("text", 0, None, "", None)

EnvelopeBodies ==
    { BodyOf("envelope", 500, rid, err, msg) :
        rid \in {None, "req-body"}, err \in {"boom", "deadline_exceeded"},
        msg \in {None, "lease not found"} }

Bodies == {NullBody, EmptyBody, OkObjectBody, TextBody} \cup EnvelopeBodies

\* http::StatusCode values a response can carry (100..=999), one or more per class
Statuses == {100, 200, 204, 301, 400, 404, 408, 500, 503, 600}

RequestIds == {None, "req-hdr"}

\* transport::TransportResult, or the failure of Transport::make_request
TransportResult ==
    [ok : {TRUE}, body : Bodies, status_code : Statuses, request_id : RequestIds]

NetworkError == [ok |-> FALSE, body |-> NoBody, status_code |-> 0, request_id |-> None]

TransportOutcomes == TransportResult \cup {NetworkError}

(***************************************************************************)
(* RawApiError and FlapsError.                                             *)
(***************************************************************************)
NoRaw == [status_code |-> 0, fly_request_id |-> None,
          error |-> [text |-> "", status |-> 0, body |-> NoBody], message |-> None]

\* serde_json::from_slice::<RawApiError>(&body)
ParseRawApiError(body) ==
    IF body.kind = "envelope"
    THEN [ok |-> TRUE,
          raw |-> [status_code |-> body.status_code,
                   fly_request_id |-> body.fly_request_id,
                   error |-> [text |-> body.error, status |-> 0, body |-> NoBody],
                   message |-> body.message]]
    ELSE [ok |-> FALSE, raw |-> NoRaw]

\* the closure of unwrap_or_else
SynthesizedRawApiError(body, fly_request_id, status) ==
    [status_code |-> status,
     fly_request_id |-> fly_request_id,
     error |-> [text |-> "Server returned non-2xx status code", status |-> status, body |-> body],
     message |-> None]

FlapsErr(kind, desired_state, raw, status) ==
    [kind |-> kind, desired_state |-> desired_state, raw |-> raw, status |-> status]

Ok == FlapsErr("Ok", None, NoRaw, 0)
Pending == FlapsErr("Pending", None, NoRaw, 0)
\* map_flaps_error's unreachable!() for a success status
Panic == FlapsErr("Panic", None, NoRaw, 0)

\* ApiEndpoint
EndpointOther == [tag |-> "Other", state |-> None]
EndpointWait(s) == [tag |-> "Wait", state |-> s]

IsInformational(status) == status >= 100 /\ status < 200
IsSuccess(status) == status >= 200 /\ status < 300
IsRedirection(status) == status >= 300 /\ status < 400
IsClientError(status) == status >= 400 /\ status < 500
\* only 500 itself counted as a server error
IsServerError_Only500(status) == status = 500
IsServerError(status) == status >= 500 /\ status < 600

REQUEST_TIMEOUT == 408
NOT_FOUND == 404

\* the endpoint context left out of the test
IsWaitTimeout_AnyEndpoint(endpoint, status) == status = REQUEST_TIMEOUT
\* the match on the endpoint: a 408 under Wait
IsWaitTimeout(endpoint, status) == endpoint.tag = "Wait" /\ status = REQUEST_TIMEOUT

\* every client error taken for not-found
IsNotFound_AnyClientError(status) == IsClientError(status)
IsNotFound(status) == status = NOT_FOUND

RawApiErrFor(body, fly_request_id, status) ==
    LET parsed == ParseRawApiError(body)
    IN  IF parsed.ok THEN parsed.raw ELSE SynthesizedRawApiError(body, fly_request_id, status)

map_flaps_error(body, fly_request_id, status, endpoint) ==
    IF IsSuccess(status) THEN Panic
    ELSE IF IsInformational(status) \/ IsRedirection(status)
         THEN FlapsErr("UnexpectedHttpStatus", None, NoRaw, status)
    ELSE IF ~IsClientError(status) /\ ~IsServerError(status)
         THEN FlapsErr("UnexpectedHttpStatus", None, NoRaw, status)
    ELSE LET raw_api_err == RawApiErrFor(body, fly_request_id, status)
         IN  IF IsWaitTimeout(endpoint, status)
             THEN FlapsErr("DesiredStateNotReached", endpoint.state, raw_api_err, 0)
             ELSE IF IsNotFound(status)
                  THEN FlapsErr("NotFound", None, raw_api_err, 0)
                  ELSE FlapsErr("UnknownFlapsError", None, raw_api_err, 0)

(***************************************************************************)
(* The request pipeline.                                                   *)
(***************************************************************************)
\* the threshold one class too low: every status above 199 taken for an error
make_request_raw_Above199(tr, api_endpoint) ==
    IF ~tr.ok THEN [err |-> FlapsErr("Reqwest", None, NoRaw, 0), body |-> NoBody, called |-> FALSE]
    ELSE IF tr.status_code > 199
         THEN [err |-> map_flaps_error(tr.body, tr.request_id, tr.status_code, api_endpoint),
               body |-> NoBody, called |-> TRUE]
         ELSE [err |-> Ok, body |-> tr.body, called |-> FALSE]

\* Client::make_request_raw: the transport's error, the classified error for a
\* status above 299, or the body; `called` tells whether map_flaps_error was invoked
make_request_raw(tr, api_endpoint) ==
    IF ~tr.ok THEN [err |-> FlapsErr("Reqwest", None, NoRaw, 0), body |-> NoBody, called |-> FALSE]
    ELSE IF tr.status_code > 299
         THEN [err |-> map_flaps_error(tr.body, tr.request_id, tr.status_code, api_endpoint),
               body |-> NoBody, called |-> TRUE]
         ELSE [err |-> Ok, body |-> tr.body, called |-> FALSE]

\* serde_json::from_slice::<()>: the unit type is read from the JSON null only
DeserializeUnit(body) == body.kind = "null"

\* Client::make_machines_request with Res = ()
make_machines_request_unit(tr, api_endpoint) ==
    LET bytes == make_request_raw(tr, api_endpoint)
    IN  IF bytes.err # Ok THEN bytes.err
        ELSE IF DeserializeUnit(bytes.body) THEN Ok
        ELSE FlapsErr("Json", None, NoRaw, 0)

\* the invocation of map_flaps_error that make_request_raw makes for tr, if any
NoCls == [called |-> FALSE, body |-> NoBody, fly_request_id |-> None, status |-> 0,
          endpoint |-> EndpointOther, out |-> Ok]

ClassifierCall(tr, api_endpoint) ==
    LET raw == make_request_raw(tr, api_endpoint)
    IN  IF raw.called
        THEN [called |-> TRUE, body |-> tr.body, fly_request_id |-> tr.request_id,
              status |-> tr.status_code, endpoint |-> api_endpoint, out |-> raw.err]
        ELSE NoCls

(***************************************************************************)
(* Client::wait: the request it builds.                                    *)
(***************************************************************************)
Machines ==
    { [id |-> "m1", instance_id |-> "inst-1", version |-> v] : v \in {None, "ver-2"} }

WaitState(state) == IF state = None THEN "Started" ELSE state

\* the version of the snapshot ignored
WaitVersion_InstanceIdOnly(machine) == machine.instance_id
WaitVersion(machine) ==
    IF machine.version # None THEN machine.version ELSE machine.instance_id

\* the clamp left out
WaitTimeoutSecs_Unclamped(timeout) == AsSecs(timeout)
WaitTimeoutSecs(timeout) == AsSecs(Clamp(timeout, Secs(1), PROXY_TIMEOUT_THRESHOLD))

\* HeaderPair::lease_nonce
LeaseNonceHeader(nonce) == [name |-> "fly-machine-lease-nonce", value |-> nonce]

\* the header pushed whatever the nonce
add_lease_nonce_Always(headers, nonce) == Append(headers, LeaseNonceHeader(nonce))
\* add_lease_nonce
add_lease_nonce(headers, nonce) ==
    IF nonce # None THEN Append(headers, LeaseNonceHeader(nonce)) ELSE headers

\* the application the client was made for and the path of its base URL: a path is
\* the sequence of its segments, "/" being one empty segment
APP_NAME == "my-app"
BASE_URL == <<"">>

\* Url::join of a relative path: the reference replaces the last segment of the
\* base, an empty reference gives the base
UrlJoin(base, rel) == IF rel = << >> THEN base ELSE SubSeq(base, 1, Len(base) - 1) \o rel

\* RawClient::app_url as Client::new builds it
app_url == UrlJoin(BASE_URL, <<"v1", "apps", APP_NAME, "machines">>)

\* the endpoint an operation formats from the machine id and what follows it, as
\* path segments (the query is no part of the path)
EndpointSegments(machine_id, suffix) ==
    (IF machine_id = "" THEN << >> ELSE <<machine_id>>)
    \o (CASE suffix = "" -> << >>
           [] suffix = "lease/refresh" -> <<"lease", "refresh">>
           [] OTHER -> <<suffix>>)

\* self.0.app_url.join(endpoint): the path of the URL handed to the transport
RequestUrl(machine_id, suffix) == UrlJoin(app_url, EndpointSegments(machine_id, suffix))

\* a request as handed to the transport: the method, the endpoint below the app's
\* machines URL (machine id and suffix), the query parameters of wait, the extra
\* headers and the endpoint context
NoReq == [method |-> "", machine_id |-> "", suffix |-> "", instance_id |-> "",
          state |-> "", timeout |-> 0, endpoint |-> EndpointOther, headers |-> << >>,
          url |-> << >>]

WaitRequest(machine, state, timeout) ==
    [method |-> "GET", machine_id |-> machine.id, suffix |-> "wait",
     instance_id |-> WaitVersion(machine), state |-> StateName(WaitState(state)),
     timeout |-> WaitTimeoutSecs(timeout), endpoint |-> EndpointWait(WaitState(state)),
     headers |-> << >>, url |-> RequestUrl(machine.id, "wait")]

\* Client::kill
KillRequest(machine) ==
    [method |-> "POST", machine_id |-> machine.id, suffix |-> "signal",
     instance_id |-> "", state |-> "", timeout |-> 0, endpoint |-> EndpointOther,
     headers |-> << >>, url |-> RequestUrl(machine.id, "signal")]

(***************************************************************************)
(* backoff::ExponentialBackoff as wait_for_state configures it.            *)
(***************************************************************************)
INITIAL_INTERVAL == Millis(500)
MAX_INTERVAL == Millis(5000)
\* the multiplier 1.5 as a fraction
MULTIPLIER_NUM == 3
MULTIPLIER_DEN == 2
\* the grace margin of end_time
GRACE == Millis(100)
\* the cap of one attempt's window taken for the proxy threshold
ATTEMPT_CAP_ProxyThreshold == PROXY_TIMEOUT_THRESHOLD
\* the cap of one attempt's window
ATTEMPT_CAP == Secs(2)

\* rand::random::<f64>() at the low end, the middle and the high end of [0, 1)
RandomChoices == {0, 1, 2}

\* get_random_value_from_interval with the default randomization factor 0.5
RandomizedInterval(random, current_interval) ==
    LET delta == current_interval \div 2
    IN  (current_interval - delta) + random * delta

\* increment_current_interval
IncrementCurrentInterval(current_interval) ==
    IF current_interval * MULTIPLIER_NUM >= MAX_INTERVAL * MULTIPLIER_DEN
    THEN MAX_INTERVAL
    ELSE (current_interval * MULTIPLIER_NUM) \div MULTIPLIER_DEN

NewBackoff(timeout, now) ==
    [current_interval |-> INITIAL_INTERVAL, max_elapsed_time |-> timeout, start_time |-> now]

\* the comparison against the budget inverted
NextBackoff_Inverted(b, now, random) ==
    LET elapsed_time == now - b.start_time
        randomized_interval == RandomizedInterval(random, b.current_interval)
    IN  IF elapsed_time > b.max_elapsed_time
        THEN [some |-> FALSE, duration |-> 0, backoff |-> b]
        ELSE [some |-> elapsed_time + randomized_interval >= b.max_elapsed_time,
              duration |-> randomized_interval,
              backoff |-> [b EXCEPT !.current_interval = IncrementCurrentInterval(@)]]

\* ExponentialBackoff::next_backoff: None once the budget is spent, or when the
\* interval drawn would end after it
NextBackoff(b, now, random) ==
    LET elapsed_time == now - b.start_time
        randomized_interval == RandomizedInterval(random, b.current_interval)
    IN  IF elapsed_time > b.max_elapsed_time
        THEN [some |-> FALSE, duration |-> 0, backoff |-> b]
        ELSE [some |-> elapsed_time + randomized_interval <= b.max_elapsed_time,
              duration |-> randomized_interval,
              backoff |-> [b EXCEPT !.current_interval = IncrementCurrentInterval(@)]]

\* NotFound retried as well, as list_fly_apps_machines does
IsTransient_NotFoundToo(e) == e.kind \in {"DesiredStateNotReached", "NotFound"}
\* the retry closure's classification of a wait result
IsTransient(e) == e.kind = "DesiredStateNotReached"

(***************************************************************************)
(* Inputs of the calls.                                                    *)
(***************************************************************************)
OptionalStates == {None} \cup State

\* timeouts a caller passes to wait: below, inside and above [1s, 60s]
WaitTimeouts ==
    {0, Millis(1), Millis(999), Secs(1), Millis(1500), Secs(30), Secs(60), Secs(90), Secs(1000)}

\* timeouts a caller passes to wait_for_state
WfsTimeouts == {0, Millis(1)} \cup { k * Millis(500) : k \in 1..MaxTimeoutHalfSecs }

WfsStates == {None, "Stopped"}

WfsMachine == [id |-> "m1", instance_id |-> "inst-1", version |-> None]

\* what the remote answers to a wait attempt of wait_for_state
WfsOutcomes ==
    [ok : {TRUE},
     body : {NullBody, OkObjectBody, BodyOf("envelope", 500, "req-body", "deadline_exceeded", None)},
     status_code : {200, 301, 404, 408, 500},
     request_id : RequestIds]
    \cup {NetworkError}

\* how long an attempt lasts: the remote answers at once or holds the request for
\* the whole window it was asked for
AttemptDurations(timeout_secs) == {0, Secs(timeout_secs)}

\* a call of an operation: the operation and its arguments (None where it has none)
CallOf(op, machine, state, timeout, nonce, id) ==
    [op |-> op, machine |-> machine, state |-> state, timeout |-> timeout,
     nonce |-> nonce, id |-> id]

NoCall == CallOf("none", WfsMachine, None, 0, None, None)

\* what a finished call returns besides Ok: nothing, the lease (or no lease) of
\* find_lease, acquire_lease and refresh_lease, the machines of get, list and
\* list_active, the FlyAppsMachines of list_fly_apps_machines
ValueOf(tag, machines, release_cmd_machine, lease) ==
    [tag |-> tag, machines |-> machines, release_cmd_machine |-> release_cmd_machine,
     lease |-> lease]

NoMachine == MachineOf(None, None, FALSE, None, None, None)

NoValue == ValueOf("none", << >>, NoMachine, NoLease)

\* get_many: the ids asked for, the fetches still running, the machines fetched
\* and the order in which the fetches were answered
NoFan == [ids |-> << >>, pending |-> {}, got |-> << >>, order |-> << >>]

NoBackoff == NewBackoff(0, 0)

\* no answer of the transport yet
NoAnswer == [ok |-> FALSE, body |-> NoBody, status_code |-> 1, request_id |-> None]

(***************************************************************************)
(* The operations that are one call of make_machines_request: launch,      *)
(* update, start, stop, restart, get, list, list_active, destroy,          *)
(* find_lease, acquire_lease, refresh_lease, release_lease, exec and       *)
(* get_processes.                                                          *)
(***************************************************************************)
Ops ==
    {"launch", "update", "start", "stop", "restart", "get", "list", "list_active", "destroy",
     "find_lease", "acquire_lease", "refresh_lease", "release_lease", "exec", "get_processes"}

\* the operations with a parameter nonce: Option<String>
NonceOps == {"update", "start", "stop", "restart", "destroy", "release_lease"}

OpMethod(op) ==
    CASE op \in {"launch", "update", "start", "stop", "restart", "acquire_lease",
                 "refresh_lease", "exec"} -> "POST"
      [] op \in {"get", "list", "list_active", "find_lease", "get_processes"} -> "GET"
      [] op \in {"destroy", "release_lease"} -> "DELETE"

\* what follows the machine id in the endpoint
OpSuffix(op) ==
    CASE op = "start" -> "start"
      [] op = "stop" -> "stop"
      [] op = "restart" -> "restart"
      [] op = "destroy" -> "destroy"
      [] op \in {"find_lease", "acquire_lease", "release_lease"} -> "lease"
      [] op = "refresh_lease" -> "lease/refresh"
      [] op = "exec" -> "exec"
      [] op = "get_processes" -> "ps"
      [] OTHER -> ""

\* a client that remembers the lease it was granted and presents it on its own
OpHeaders_RemembersLease(op, nonce) ==
    CASE op \in NonceOps -> add_lease_nonce(<< >>, IF nonce = None THEN held ELSE nonce)
      [] op = "refresh_lease" -> <<LeaseNonceHeader(nonce)>>
      [] OTHER -> << >>

\* the headers the operation hands to make_machines_request
OpHeaders(op, nonce) ==
    CASE op \in NonceOps -> add_lease_nonce(<< >>, nonce)
      [] op = "refresh_lease" -> <<LeaseNonceHeader(nonce)>>
      [] OTHER -> << >>

\* the shape of Res: () is read from null, the others from a body of their shape
OpRes(op) ==
    CASE op \in {"stop", "restart", "destroy", "release_lease"} -> "null"
      [] op \in {"launch", "update", "get"} -> "machine"
      [] op \in {"list", "list_active"} -> "machines"
      [] op \in {"find_lease", "acquire_lease", "refresh_lease"} -> "lease"
      [] op = "start" -> "start_response"
      [] op = "exec" -> "exec_response"
      [] op = "get_processes" -> "processes"

OpRequest(op, id, nonce) ==
    [method |-> OpMethod(op), machine_id |-> IF id = None THEN "" ELSE id,
     suffix |-> OpSuffix(op), instance_id |-> "", state |-> "", timeout |-> 0,
     endpoint |-> EndpointOther, headers |-> OpHeaders(op, nonce),
     url |-> RequestUrl(IF id = None THEN "" ELSE id, OpSuffix(op))]

\* serde_json::from_slice::<Res>
Deserialize(res, body) == IF res = "null" THEN DeserializeUnit(body) ELSE body.kind = res

\* Client::make_machines_request
make_machines_request(tr, api_endpoint, res) ==
    LET bytes == make_request_raw(tr, api_endpoint)
    IN  IF bytes.err # Ok THEN [err |-> bytes.err, payload |-> NoPayload]
        ELSE IF Deserialize(res, bytes.body) THEN [err |-> Ok, payload |-> bytes.body.payload]
        ELSE [err |-> FlapsErr("Json", None, NoRaw, 0), payload |-> NoPayload]

LEASE_NOT_FOUND == "lease not found"

\* every NotFound taken for the absence of a lease
find_lease_AnyNotFound(res) ==
    IF res.err = Ok
    THEN [err |-> Ok, value |-> ValueOf("some_lease", << >>, NoMachine, res.payload.lease)]
    ELSE IF res.err.kind = "NotFound"
         THEN [err |-> Ok, value |-> ValueOf("no_lease", << >>, NoMachine, NoLease)]
         ELSE [err |-> res.err, value |-> NoValue]

\* Client::find_lease: the match on the result of make_machines_request
find_lease(res) ==
    IF res.err = Ok
    THEN [err |-> Ok, value |-> ValueOf("some_lease", << >>, NoMachine, res.payload.lease)]
    ELSE IF res.err.kind = "NotFound"
         THEN IF res.err.raw.message # None /\ res.err.raw.message = LEASE_NOT_FOUND
              THEN [err |-> Ok, value |-> ValueOf("no_lease", << >>, NoMachine, NoLease)]
              ELSE [err |-> res.err, value |-> NoValue]
         ELSE [err |-> res.err, value |-> NoValue]

\* the closure of list_active's retain
ListActiveKeeps(m) ==
    ~is_release_command_machine(m) /\ ~is_fly_apps_console(m) /\ is_active(m)

\* Client::list_active after the listing
list_active(res) ==
    IF res.err = Ok
    THEN [err |-> Ok,
          value |-> ValueOf("machines", SelectSeq(res.payload.machines, ListActiveKeeps),
                            NoMachine, NoLease)]
    ELSE [err |-> res.err, value |-> NoValue]

\* Res::deserialize_in_place on a serde_json::Deserializer that is never asked for
\* its end: what follows the value is not looked at
DeserializeInPlace(res, body) ==
    \/ Deserialize(res, body)
    \/ res = "machines" /\ body.kind = "machines_trailing"

\* Client::make_machines_request_into: place is the caller's value, rewritten by a
\* decode that succeeds
make_machines_request_into(tr, api_endpoint, res, place) ==
    LET bytes == make_request_raw(tr, api_endpoint)
    IN  IF bytes.err # Ok THEN [err |-> bytes.err, place |-> place]
        ELSE IF DeserializeInPlace(res, bytes.body)
             THEN [err |-> Ok, place |-> bytes.body.payload.machines]
             ELSE [err |-> FlapsErr("Json", None, NoRaw, 0), place |-> place]

\* Client::list_into and Client::list_active_into on the caller's vector
list_into(op, tr, vec) ==
    LET res == make_machines_request_into(tr, EndpointOther, "machines", vec)
    IN  IF op = "list_active_into" /\ res.err = Ok
        THEN [err |-> Ok, place |-> SelectSeq(res.place, ListActiveKeeps)]
        ELSE res

\* what the operation returns for the transport's answer
OpResult(op, tr) ==
    LET res == make_machines_request(tr, EndpointOther, OpRes(op))
    IN  CASE op = "find_lease" -> find_lease(res)
          [] op = "list_active" -> list_active(res)
          [] OTHER ->
               IF res.err = Ok
               THEN [err |-> Ok,
                     value |-> ValueOf(OpRes(op), res.payload.machines, NoMachine,
                                       res.payload.lease)]
               ELSE [err |-> res.err, value |-> NoValue]

\* the lease the remote holds for the machine after answering: granted by a 2xx
\* answer to acquire_lease or refresh_lease, gone after one to release_lease
LeaseAfter(h, op, tr) ==
    IF tr.ok /\ IsSuccess(tr.status_code)
    THEN IF op \in {"acquire_lease", "refresh_lease"} /\ tr.body.kind = "lease"
         THEN tr.body.payload.lease.nonce
         ELSE IF op = "release_lease" THEN None ELSE h
    ELSE h

(***************************************************************************)
(* Machines a listing can hold, listings, and what the remote answers.     *)
(***************************************************************************)
\* listings hold up to MaxListLen machines
MaxListLen == 2

\* the machines a listing is drawn from:
\*   running_a     a running machine of the apps platform, group app
\*   running_b     a running machine without config metadata
\*   destroyed     a destroyed platform machine, group app
\*   destroying    a platform machine being destroyed, group app
\*   release       the release-command machine under the modern key
\*   release_old   a release-command machine under the legacy key and name
\*   console       a running console machine of the apps platform
\*   console_v1    the console group outside the apps platform
\*   console_gone  a destroyed console machine
\*   shadowed      the modern key (app) shadows the legacy key (release_command)
Listed(kind) ==
    LET v2 == MACHINE_FLY_PLATFORM_VERSION_2
        app == MACHINE_PROCESS_GROUP_APP
        rel == MACHINE_PROCESS_GROUP_FLY_APP_RELEASE_COMMAND
        con == MACHINE_PROCESS_GROUP_FLY_APP_CONSOLE
    IN  CASE kind = "running_a" -> MachineOf("a", "Started", TRUE, app, None, v2)
          [] kind = "running_b" -> MachineOf("b", "Started", FALSE, None, None, None)
          [] kind = "destroyed" -> MachineOf("d", "Destroyed", TRUE, app, None, v2)
          [] kind = "destroying" -> MachineOf("g", "Destroying", TRUE, app, None, v2)
          [] kind = "release" -> MachineOf("r", "Stopped", TRUE, rel, None, v2)
          [] kind = "release_old" -> MachineOf("l", "Started", TRUE, None, "release_command", None)
          [] kind = "console" -> MachineOf("c", "Started", TRUE, con, None, v2)
          [] kind = "console_v1" -> MachineOf("n", "Started", TRUE, con, None, None)
          [] kind = "console_gone" -> MachineOf("x", "Destroyed", TRUE, con, None, v2)
          [] kind = "shadowed" -> MachineOf("s", "Started", TRUE, app, "release_command", v2)

ListedMachines ==
    { Listed(k) : k \in {"running_a", "running_b", "destroyed", "destroying", "release",
                         "release_old", "console", "console_v1", "console_gone", "shadowed"} }

\* one destroyed machine, one release-command machine and two plain running machines
ExampleListing ==
    <<Listed("destroyed"), Listed("running_a"), Listed("release"), Listed("running_b")>>

Listings ==
    UNION { [1..n -> ListedMachines] : n \in 0..MaxListLen } \cup {ExampleListing}

MachineBody(m) == JsonBody("machine", [machines |-> <<m>>, lease |-> NoLease])
MachinesBody(l) == JsonBody("machines", [machines |-> l, lease |-> NoLease])
LeaseBody(lease) == JsonBody("lease", [machines |-> << >>, lease |-> lease])

Nonces == {"nonce-1", "nonce-2"}
OptionalNonces == {None} \cup Nonces

\* the lease the remote grants
GrantedLease == LeaseOf("nonce-1", "owner-1")

\* bodies of the shape the operation decodes
ExpectedBodies(op) ==
    CASE OpRes(op) = "null" -> {NullBody}
      [] OpRes(op) = "machine" -> {MachineBody(Listed("running_a"))}
      [] OpRes(op) = "machines" -> { MachinesBody(l) : l \in Listings }
      [] OpRes(op) = "lease" -> {LeaseBody(GrantedLease)}
      [] OTHER -> {JsonBody(OpRes(op), NoPayload)}

\* the other bodies: null, a text that is no JSON, error envelopes with and
\* without a message
ErrorBodies ==
    {NullBody, TextBody}
    \cup { BodyOf("envelope", 404, "req-body", "not_found", msg) :
             msg \in {None, LEASE_NOT_FOUND, "something else"} }

OpStatuses == {100, 200, 301, 404, 500, 600}

\* what the remote answers to the request of an operation
OpOutcomes(op) ==
    [ok : {TRUE}, body : ErrorBodies, status_code : OpStatuses, request_id : RequestIds]
    \cup [ok : {TRUE}, body : ExpectedBodies(op), status_code : {100, 200}, request_id : {None}]
    \cup {NetworkError}

\* what the remote answers to the listing of list_into and list_active_into: the
\* answers to list, and a listing followed by bytes that are no JSON white space
IntoOutcomes ==
    OpOutcomes("list")
    \cup [ok : {TRUE},
          body : { JsonBody("machines_trailing", [machines |-> l, lease |-> NoLease]) :
                     l \in Listings },
          status_code : {200, 404}, request_id : {None}]

\* the arguments of a call: the id of LaunchMachineInput is optional, launch and
\* the listings take no machine
OpIds(op) ==
    CASE op = "update" -> {None, "m1"}
      [] op \in {"launch", "list", "list_active"} -> {None}
      [] OTHER -> {"m1"}

OpNonces(op) ==
    CASE op \in NonceOps -> OptionalNonces
      [] op = "refresh_lease" -> Nonces
      [] OTHER -> {None}

(***************************************************************************)
(* Construction of a client.  Names are sequences of characters.  The      *)
(* variable conv holds a function of the library that takes no client: its  *)
(* name fn, its input in, what it gave (mid), what the inverse function     *)
(* gave for that (out), and the number of applications (step).              *)
(***************************************************************************)
\* the test of the backslash left out
IsInvalidAppName_NoBackslash(app_name) ==
    \E i \in 1..Len(app_name) : app_name[i] \in {"/", ":"}
\* app_name.chars().any(|c| matches!(c, '/'|':'|'\\'))
IsInvalidAppName(app_name) ==
    \E i \in 1..Len(app_name) : app_name[i] \in {"/", ":", "\\"}

\* Client::new and Client::new_from_socket on the settings and the environment.
\* An Option is a record with the flag some; cfg.base_url holds what Url::parse
\* makes of the text given, or else of the text of default_base_url() (which the
\* environment can set); env_app_name is FLY_APP_NAME.  new parses the base URL
\* first, new_from_socket has a fixed one
new(ctor, cfg) ==
    LET base_url == IF ctor = "new_from_socket"
                    THEN [some |-> TRUE, parses |-> TRUE, path |-> BASE_URL]
                    ELSE cfg.base_url
        app_name == IF cfg.app_name.some THEN cfg.app_name ELSE cfg.env_app_name
        Failed(kind) == [kind |-> kind, app_url |-> << >>]
    IN  IF ~base_url.parses THEN Failed("InvalidBaseUrl")
        ELSE IF ~app_name.some THEN Failed("MissingAppName")
        ELSE IF IsInvalidAppName(app_name.name) THEN Failed("InvalidAppName")
        ELSE [kind |-> "Client",
              app_url |-> UrlJoin(base_url.path, <<<<"v1">>, <<"apps">>, app_name.name,
                                                   <<"machines">>>>)]

\* the settings a client is made from: the names of the documentation, the empty
\* name, a name from the environment, and base URLs that parse and do not
ClientSettings ==
    [base_url : {[some |-> FALSE, parses |-> TRUE, path |-> BASE_URL],
                 [some |-> TRUE, parses |-> TRUE, path |-> BASE_URL],
                 [some |-> TRUE, parses |-> FALSE, path |-> << >>]},
     app_name : {[some |-> FALSE, name |-> << >>], [some |-> TRUE, name |-> << >>]}
                \cup { [some |-> TRUE, name |-> <<"m", "y", c, "a", "p", "p">>] :
                         c \in {"-", "/", ":", "\\", "."} },
     env_app_name : {[some |-> FALSE, name |-> << >>], [some |-> TRUE, name |-> <<"e", "n", "v">>],
                     [some |-> TRUE, name |-> <<"e", "/", "v">>]}]

\* the constructor returns
Construct ==
    /\ conv.fn \in {"new", "new_from_socket"}
    /\ conv.step = 0
    /\ conv' = [conv EXCEPT !.out = new(conv.fn, conv.in), !.step = 1]
    /\ UNCHANGED <<pc, call, req, nreq, cls, result, clock, backoff, end_time, delay, log,
                   value, held, fan, answer>>

(***************************************************************************)
(* Durations as text.  A Duration is its seconds and its nanoseconds below  *)
(* a second; a count of nanoseconds (u128, u64) is the pair hi, lo with     *)
(* value hi * 10^9 + lo; a text is the sequence of its characters.          *)
(***************************************************************************)
\* the decimal digits as characters
DigitChars == <<"0", "1", "2", "3", "4", "5", "6", "7", "8", "9">>

\* format_fixed_point: the digits of n are pushed from the least significant one,
\* the point after the decimal_idx-th digit, "0" after a point that ends the
\* buffer; the buffer is reversed and cut after its last character that is
\* neither '0' nor '.'
format_fixed_point(n, decimal_idx) ==
    LET RECURSIVE Width(_)
        Width(v) == IF v = 0 THEN 0 ELSE 1 + Width(v \div 10)
        RECURSIVE Pow10(_)
        Pow10(k) == IF k = 0 THEN 1 ELSE 10 * Pow10(k - 1)
        len == IF n.hi > 0 THEN 9 + Width(n.hi) ELSE Width(n.lo)
        DigitAt(k) == IF k <= 9 THEN (n.lo \div Pow10(k - 1)) % 10
                      ELSE (n.hi \div Pow10(k - 10)) % 10
        RECURSIVE Pushed(_)
        Pushed(k) ==
            IF k = 0 THEN << >>
            ELSE Pushed(k - 1) \o <<DigitChars[DigitAt(k) + 1]>>
                 \o (IF k = decimal_idx THEN <<".">> ELSE << >>)
        sb == IF len > 0 /\ Pushed(len)[Len(Pushed(len))] = "."
              THEN Append(Pushed(len), "0")
              ELSE Pushed(len)
        s == [i \in 1..Len(sb) |-> sb[Len(sb) + 1 - i]]
        numbers == { i \in 1..Len(s) : s[i] \notin {"0", "."} }
    IN  IF numbers = {} THEN << >>
        ELSE SubSeq(s, 1, CHOOSE i \in numbers : \A j \in numbers : j <= i)

\* impl ToString for FlyctlDuration; as_nanos, as_micros and as_millis are below
\* 1000 only for a duration below a second
to_string(d) ==
    LET RECURSIVE Display(_)
        Display(v) == IF v < 10 THEN <<DigitChars[v + 1]>>
                      ELSE Append(Display(v \div 10), DigitChars[(v % 10) + 1])
        hrs == d.secs \div (60 * 60)
        mins == (d.secs % (60 * 60)) \div 60
        sb == (IF hrs > 0 THEN Append(Display(hrs), "h") ELSE << >>)
              \o (IF mins > 0 \/ hrs > 0 THEN Append(Display(mins), "m") ELSE << >>)
        ns == [hi |-> d.secs, lo |-> d.nanos]
    IN  IF d.secs = 0 /\ d.nanos = 0 THEN <<"0", "s">>
        ELSE IF d.secs = 0 /\ d.nanos < 1000
             THEN sb \o Display(d.nanos) \o <<"n", "s">>
        ELSE IF d.secs = 0 /\ d.nanos \div 1000 < 1000
             THEN sb \o format_fixed_point(ns, 3) \o <<"µ", "s">>
        ELSE IF d.secs = 0 /\ d.nanos \div 1000000 < 1000
             THEN sb \o format_fixed_point(ns, 6) \o <<"m", "s">>
        ELSE LET mins_as_secs == (d.secs \div 60) * 60
             IN  sb \o format_fixed_point([hi |-> d.secs - mins_as_secs, lo |-> d.nanos], 9)
                    \o <<"s">>

\* the digit of a character, 10 for a character that is none
ToDigit(c) ==
    IF \E v \in 0..9 : DigitChars[v + 1] = c
    THEN CHOOSE v \in 0..9 : DigitChars[v + 1] = c
    ELSE 10

\* parse_fixed_point: the digits up to the point, then shift_amt further
\* characters, '0' where the text has ended, each one a digit or the parse fails
parse_fixed_point(s, shift_amt) ==
    LET points == { i \in 1..Len(s) : s[i] = "." }
        point == IF points = {} THEN Len(s) + 1
                 ELSE CHOOSE i \in points : \A j \in points : i <= j
        rest == SubSeq(s, point + 1, Len(s))
        taken == SubSeq(s, 1, point - 1)
                 \o [i \in 1..shift_amt |-> IF i <= Len(rest) THEN rest[i] ELSE "0"]
        RECURSIVE Buf(_)
        Buf(k) ==
            IF k = 0 THEN [hi |-> 0, lo |-> 0]
            ELSE LET buf == Buf(k - 1)
                 IN  [hi |-> buf.hi * 10 + buf.lo \div 100000000,
                      lo |-> (buf.lo % 100000000) * 10 + ToDigit(taken[k])]
    IN  IF \E i \in 1..Len(taken) : ToDigit(taken[i]) = 10
        THEN [ok |-> FALSE, buf |-> [hi |-> 0, lo |-> 0]]
        ELSE [ok |-> TRUE, buf |-> Buf(Len(taken))]

\* impl FromStr for FlyctlDuration: digits and points are gathered in num_str, a
\* unit adds what they mean to the duration; u64::from_str takes no point
from_str(s) ==
    LET Err == [ok |-> FALSE, d |-> [secs |-> 0, nanos |-> 0]]
        Plus(d, n) == [secs |-> d.secs + n.hi + (d.nanos + n.lo) \div 1000000000,
                       nanos |-> (d.nanos + n.lo) % 1000000000]
        RECURSIVE Loop(_, _, _)
        Loop(i, num_str, duration) ==
            IF i > Len(s) THEN [ok |-> TRUE, d |-> duration]
            ELSE IF ToDigit(s[i]) < 10 \/ s[i] = "."
                 THEN Loop(i + 1, Append(num_str, s[i]), duration)
            ELSE IF num_str = << >> THEN Err
            ELSE LET c == s[i]
                     peek_s == i < Len(s) /\ s[i + 1] = "s"
                     shift_amt == IF c = "m" /\ peek_s THEN 6
                                  ELSE IF c \in {"µ", "u"} /\ peek_s THEN 3
                                  ELSE IF c = "n" /\ peek_s THEN 0
                                  ELSE 9
                     fixed == parse_fixed_point(num_str, shift_amt)
                     whole == parse_fixed_point(num_str, 0)
                     integral == whole.ok /\ \A k \in 1..Len(num_str) : num_str[k] # "."
                 IN  IF (c \in {"m", "µ", "u", "n"} /\ peek_s) \/ c = "s"
                     THEN IF fixed.ok
                          THEN Loop(IF c = "s" THEN i + 1 ELSE i + 2, << >>,
                                    Plus(duration, fixed.buf))
                          ELSE Err
                     ELSE IF c \in {"m", "h"}
                     THEN IF integral
                          THEN Loop(i + 1, << >>,
                                    Plus(duration,
                                         [hi |-> whole.buf.lo * (IF c = "m" THEN 60 ELSE 60 * 60),
                                          lo |-> 0]))
                          ELSE Err
                     ELSE Err
    IN  Loop(1, << >>, [secs |-> 0, nanos |-> 0])

\* to_string is called on a duration
DurationToString ==
    /\ conv.fn = "to_string"
    /\ conv.step = 0
    /\ conv' = [conv EXCEPT !.mid = to_string(conv.in), !.step = 1]
    /\ UNCHANGED <<pc, call, req, nreq, cls, result, clock, backoff, end_time, delay, log,
                   value, held, fan, answer>>

\* the text is parsed
DurationFromStr ==
    /\ conv.fn = "to_string"
    /\ conv.step = 1
    /\ conv' = [conv EXCEPT !.out = from_str(conv.mid), !.step = 2]
    /\ UNCHANGED <<pc, call, req, nreq, cls, result, clock, backoff, end_time, delay, log,
                   value, held, fan, answer>>

(***************************************************************************)
(* Durations as numbers.  A number of 64 or 128 bits is the sequence of its *)
(* digits in base 10^9, the least significant one first; the seconds of a  *)
(* Duration are two such digits.                                           *)
(***************************************************************************)
\* i64::MAX, 9223372036854775807
I64_MAX == <<854775807, 223372036, 9>>

\* impl Serialize for GoDuration: self.as_nanos().min(0).max(i64::MAX as u128) as
\* i64, the number handed to serialize_i64
serialize(d) ==
    LET as_nanos == <<d.nanos, d.secs[1], d.secs[2]>>
        Less(a, b) == \/ a[3] < b[3]
                      \/ a[3] = b[3] /\ a[2] < b[2]
                      \/ a[3] = b[3] /\ a[2] = b[2] /\ a[1] < b[1]
        min(a, b) == IF Less(b, a) THEN b ELSE a
        max(a, b) == IF Less(a, b) THEN b ELSE a
    IN  max(min(as_nanos, <<0, 0, 0>>), I64_MAX)

\* GoDurationVisitor::visit_i64 and visit_u64 on a number that is not negative:
\* Duration::from_nanos
deserialize(v) == [secs |-> <<v[2], v[3]>>, nanos |-> v[1]]

\* a GoDuration is serialized
GoSerialize ==
    /\ conv.fn = "serialize"
    /\ conv.step = 0
    /\ conv' = [conv EXCEPT !.mid = serialize(conv.in), !.step = 1]
    /\ UNCHANGED <<pc, call, req, nreq, cls, result, clock, backoff, end_time, delay, log,
                   value, held, fan, answer>>

\* the number is deserialized
GoDeserialize ==
    /\ conv.fn = "serialize"
    /\ conv.step = 1
    /\ conv' = [conv EXCEPT !.out = deserialize(conv.mid), !.step = 2]
    /\ UNCHANGED <<pc, call, req, nreq, cls, result, clock, backoff, end_time, delay, log,
                   value, held, fan, answer>>

(***************************************************************************)
(* The state machine.                                                      *)
(***************************************************************************)
Init ==
    /\ pc = "idle"
    /\ call = NoCall
    /\ req = NoReq
    /\ nreq = 0
    /\ cls = NoCls
    /\ result = Pending
    /\ clock = 0
    /\ backoff = NoBackoff
    /\ end_time = 0
    /\ delay = 0
    /\ log = << >>
    /\ value = NoValue
    /\ held = None
    /\ fan = NoFan
    /\ answer = NoAnswer
    /\ conv = [fn |-> "none", in |-> None, mid |-> None, out |-> None, step |-> 0]

\* wait and wait_for_state take no nonce and the client has no lease state: their
\* calls are explored while the remote holds no lease
NoLeaseHeld == held = None

\* Client::wait called on its own: the request is handed to the transport
WaitCall(machine, state, timeout) ==
    /\ pc = "idle"
    /\ NoLeaseHeld
    /\ pc' = "wait_inflight"
    /\ call' = CallOf("wait", machine, state, timeout, None, machine.id)
    /\ req' = WaitRequest(machine, state, timeout)
    /\ nreq' = 1
    /\ UNCHANGED <<cls, result, clock, backoff, end_time, delay, log, value, held, fan, answer, conv>>

\* the transport answers; wait returns what make_machines_request makes of it
WaitRespond(tr) ==
    /\ pc = "wait_inflight"
    /\ pc' = "done"
    /\ answer' = tr
    /\ cls' = ClassifierCall(tr, req.endpoint)
    /\ result' = make_machines_request_unit(tr, req.endpoint)
    /\ log' = <<[answer |-> tr.status_code, kind |-> result'.kind]>>
    /\ UNCHANGED <<call, req, nreq, clock, backoff, end_time, delay, value, held, fan, conv>>

\* Client::kill: a call under ApiEndpoint::Other
KillCall(machine) ==
    /\ pc = "idle"
    /\ pc' = "kill_inflight"
    /\ call' = CallOf("kill", machine, None, 0, None, machine.id)
    /\ req' = KillRequest(machine)
    /\ nreq' = 1
    /\ UNCHANGED <<cls, result, clock, backoff, end_time, delay, log, value, held, fan, answer, conv>>

KillRespond(tr) ==
    /\ pc = "kill_inflight"
    /\ pc' = "done"
    /\ answer' = tr
    /\ cls' = ClassifierCall(tr, req.endpoint)
    /\ result' = make_machines_request_unit(tr, req.endpoint)
    /\ log' = <<[answer |-> tr.status_code, kind |-> result'.kind]>>
    /\ UNCHANGED <<call, req, nreq, clock, backoff, end_time, delay, value, held, fan, conv>>

(***************************************************************************)
(* list_fly_apps_machines and get_many.                                    *)
(***************************************************************************)
\* list_fly_apps_machines gets up to MaxListRetries NotFound answers in one call
MaxListRetries == 7
\* get_many is called with up to MaxGetMany ids
MaxGetMany == 2

\* backoff's default max_elapsed_time (15 minutes), which the builder of
\* list_fly_apps_machines leaves in place
DEFAULT_MAX_ELAPSED_TIME == Secs(900)

\* the listing is answered at once or after ten minutes
ListDurations == {0, Secs(600)}

\* rand::random::<f64>() in the middle of [0, 1)
ListRandomChoices == {1}

\* a network error retried as well
IsTransientList_ReqwestToo(e) == e.kind \in {"NotFound", "Reqwest"}
\* every classified error retried
IsTransientList_UnknownToo(e) == e.kind \in {"NotFound", "UnknownFlapsError"}
\* the retry closure's classification of the listing's error
IsTransientList(e) == e.kind = "NotFound"

\* machs.iter().find(|m| m.is_release_command_machine()).cloned()
FindReleaseCommandMachine(machs) ==
    LET found == { i \in 1..Len(machs) : is_release_command_machine(machs[i]) }
    IN  IF found = {} THEN NoMachine
        ELSE machs[CHOOSE i \in found : \A j \in found : i <= j]

\* the closure of list_fly_apps_machines' retain
FlyAppsKeeps(m) == ~is_release_command_machine(m) /\ ~is_fly_apps_console(m)

\* the retry closure of list_fly_apps_machines after the listing
list_fly_apps_machines(res) ==
    IF res.err # Ok THEN [err |-> res.err, value |-> NoValue]
    ELSE LET machs == res.payload.machines
             release_cmd_mach == FindReleaseCommandMachine(machs)
         IN  [err |-> Ok,
              value |-> ValueOf("fly_apps_machines", SelectSeq(machs, FlyAppsKeeps),
                                release_cmd_mach, NoLease)]

\* what the remote answers to a listing of list_fly_apps_machines
ListOutcomes ==
    [ok : {TRUE}, body : { MachinesBody(l) : l \in Listings }, status_code : {200},
     request_id : {None}]
    \cup [ok : {TRUE},
          body : {TextBody, BodyOf("envelope", 404, "req-body", "not_found", None)},
          status_code : {200, 301, 404, 500}, request_id : {None}]
    \cup {NetworkError}

\* the ids get_many is called with
MachineIds == {"m1", "m2"}
IdLists == UNION { [1..n -> MachineIds] : n \in 0..MaxGetMany }

\* the machine the remote holds under an id
Fetched(id) == MachineOf(id, "Started", FALSE, None, None, None)

\* what the remote answers to the get of an id
GetOutcomes(id) ==
    [ok : {TRUE}, body : {MachineBody(Fetched(id))}, status_code : {200}, request_id : {None}]
    \cup [ok : {TRUE}, body : {TextBody}, status_code : {200, 404, 500}, request_id : {None}]
    \cup {NetworkError}

\* the id check left out
MissingMachineId_Never(op, id) == FALSE
\* req.id.as_ref().ok_or(FlapsError::NoMachineId)? of update
MissingMachineId(op, id) == op = "update" /\ id = None

\* the machine placed in the first free slot, in the order of completion
Collect_CompletionOrder(got, i, m) ==
    LET free == { k \in 1..Len(got) : got[k] = NoMachine }
    IN  [got EXCEPT ![CHOOSE k \in free : \A l \in free : k <= l] = m]
\* the output of the i-th future is kept in the i-th slot
Collect(got, i, m) == [got EXCEPT ![i] = m]

\* a slot that holds a machine
IsMachine(m) == m # NoMachine

\* the failure of a fetch skipped and the machines fetched so far returned
try_join_all_Partial(fn, i, out) ==
    LET got == IF out.err = Ok THEN Collect(fn.got, i, out.value.machines[1]) ELSE fn.got
        nfan == [fn EXCEPT !.pending = @ \ {i}, !.got = got, !.order = Append(@, i)]
    IN  IF fn.pending = {i}
        THEN [ready |-> TRUE, err |-> Ok, fan |-> nfan,
              value |-> ValueOf("machines", SelectSeq(got, IsMachine), NoMachine, NoLease)]
        ELSE [ready |-> FALSE, err |-> Pending, value |-> NoValue, fan |-> nfan]

\* futures::future::try_join_all when the i-th get completes with out: the first
\* error ends the join with that error, the last machine ends it with the machines
\* in the order of the ids
try_join_all(fn, i, out) ==
    IF out.err # Ok
    THEN [ready |-> TRUE, err |-> out.err, value |-> NoValue,
          fan |-> [fn EXCEPT !.order = Append(@, i)]]
    ELSE LET got == Collect(fn.got, i, out.value.machines[1])
             nfan == [fn EXCEPT !.pending = @ \ {i}, !.got = got, !.order = Append(@, i)]
         IN  IF fn.pending = {i}
             THEN [ready |-> TRUE, err |-> Ok, fan |-> nfan,
                   value |-> ValueOf("machines", got, NoMachine, NoLease)]
             ELSE [ready |-> FALSE, err |-> Pending, value |-> NoValue, fan |-> nfan]

\* an operation is called: its request is handed to the transport; update without
\* a machine id returns NoMachineId before any request
OpCall(op, id, nonce) ==
    /\ pc = "idle"
    /\ call' = CallOf(op, WfsMachine, None, 0, nonce, id)
    /\ IF MissingMachineId(op, id)
       THEN /\ pc' = "done"
            /\ result' = FlapsErr("NoMachineId", None, NoRaw, 0)
            /\ UNCHANGED <<req, nreq>>
       ELSE /\ pc' = "op_inflight"
            /\ req' = OpRequest(op, id, nonce)
            /\ nreq' = 1
            /\ UNCHANGED result
    /\ UNCHANGED <<cls, clock, backoff, end_time, delay, log, value, held, fan, answer, conv>>

\* the transport answers and the operation returns
OpRespond(tr) ==
    /\ pc = "op_inflight"
    /\ pc' = "done"
    /\ answer' = tr
    /\ cls' = ClassifierCall(tr, req.endpoint)
    /\ result' = OpResult(call.op, tr).err
    /\ value' = OpResult(call.op, tr).value
    /\ held' = LeaseAfter(held, call.op, tr)
    /\ log' = <<[answer |-> tr.status_code, kind |-> result'.kind]>>
    /\ UNCHANGED <<call, req, nreq, clock, backoff, end_time, delay, fan, conv>>

\* list_into or list_active_into is called on a vector of the caller
IntoCall(op, vec) ==
    /\ pc = "idle"
    /\ pc' = "into_inflight"
    /\ call' = CallOf(op, WfsMachine, None, 0, None, None)
    /\ req' = OpRequest("list", None, None)
    /\ nreq' = 1
    /\ value' = ValueOf("machines", vec, NoMachine, NoLease)
    /\ UNCHANGED <<cls, result, clock, backoff, end_time, delay, log, held, fan, answer, conv>>

\* the transport answers: the vector is what the call left in it
IntoRespond(tr) ==
    /\ pc = "into_inflight"
    /\ pc' = "done"
    /\ answer' = tr
    /\ cls' = ClassifierCall(tr, req.endpoint)
    /\ LET out == list_into(call.op, tr, value.machines)
       IN  /\ result' = out.err
           /\ value' = ValueOf("machines", out.place, NoMachine, NoLease)
           /\ log' = <<[answer |-> tr.status_code, kind |-> out.err.kind]>>
    /\ UNCHANGED <<call, req, nreq, clock, backoff, end_time, delay, held, fan, conv>>

\* Client::list_fly_apps_machines up to the first poll of the retry future
LfamCall ==
    /\ pc = "idle"
    /\ pc' = "lfam_attempt"
    /\ call' = CallOf("list_fly_apps_machines", WfsMachine, None, 0, None, None)
    /\ clock' = 0
    /\ backoff' = NewBackoff(DEFAULT_MAX_ELAPSED_TIME, 0)
    /\ UNCHANGED <<req, nreq, cls, result, end_time, delay, log, value, held, fan, answer, conv>>

\* the retry closure up to the await of list(None)
LfamAttempt ==
    /\ pc = "lfam_attempt"
    /\ pc' = "lfam_inflight"
    /\ req' = OpRequest("list", None, None)
    /\ nreq' = nreq + 1
    /\ UNCHANGED <<call, cls, result, clock, backoff, end_time, delay, log, value, held, fan, answer, conv>>

\* the listing is answered after d: a listing and a permanent error end the call,
\* NotFound asks the backoff for the next delay and ends it when there is none
LfamRespond(tr, d, random) ==
    /\ pc = "lfam_inflight"
    /\ LET out == list_fly_apps_machines(make_machines_request(tr, req.endpoint, "machines"))
           e == out.err
           now == clock + d
           nb == NextBackoff(backoff, now, random)
       IN  /\ IsTransientList(e) => nreq <= MaxListRetries
           /\ clock' = now
           /\ cls' = ClassifierCall(tr, req.endpoint)
           /\ answer' = tr
           /\ log' = Append(log, [answer |-> tr.status_code, kind |-> e.kind])
           /\ IF e = Ok \/ ~IsTransientList(e)
              THEN /\ pc' = "done"
                   /\ result' = e
                   /\ value' = out.value
                   /\ UNCHANGED <<backoff, delay>>
              ELSE /\ backoff' = nb.backoff
                   /\ delay' = nb.duration
                   /\ IF nb.some
                      THEN /\ pc' = "lfam_sleep"
                           /\ UNCHANGED <<result, value>>
                      ELSE /\ pc' = "done"
                           /\ result' = e
                           /\ value' = NoValue
    /\ UNCHANGED <<call, req, nreq, end_time, held, fan, conv>>

\* the backoff sleep ends
LfamWake ==
    /\ pc = "lfam_sleep"
    /\ pc' = "lfam_attempt"
    /\ clock' = clock + delay
    /\ UNCHANGED <<call, req, nreq, cls, result, backoff, end_time, delay, log, value, held, fan, answer, conv>>

\* Client::get_many up to the first poll of try_join_all: one get per id, each
\* handed to the transport; without ids the call returns the empty list
GetManyCall(ids) ==
    /\ pc = "idle"
    /\ call' = CallOf("get_many", WfsMachine, None, 0, None, None)
    /\ fan' = [ids |-> ids, pending |-> 1..Len(ids), got |-> [i \in 1..Len(ids) |-> NoMachine],
               order |-> << >>]
    /\ nreq' = Len(ids)
    /\ IF ids = << >>
       THEN /\ pc' = "done"
            /\ result' = Ok
            /\ value' = ValueOf("machines", << >>, NoMachine, NoLease)
            /\ UNCHANGED req
       ELSE /\ pc' = "many_inflight"
            /\ req' = OpRequest("get", ids[Len(ids)], None)
            /\ UNCHANGED <<result, value>>
    /\ UNCHANGED <<cls, clock, backoff, end_time, delay, log, held, answer, conv>>

\* one of the pending gets is answered: try_join_all decides
GetManyRespond(i, tr) ==
    /\ pc = "many_inflight"
    /\ i \in fan.pending
    /\ LET out == OpResult("get", tr)
           joined == try_join_all(fan, i, out)
       IN  /\ cls' = ClassifierCall(tr, req.endpoint)
           /\ answer' = tr
           /\ log' = Append(log, [answer |-> tr.status_code, kind |-> out.err.kind])
           /\ fan' = joined.fan
           /\ IF joined.ready
              THEN /\ pc' = "done"
                   /\ result' = joined.err
                   /\ value' = joined.value
              ELSE /\ pc' = "many_inflight"
                   /\ UNCHANGED <<result, value>>
    /\ UNCHANGED <<call, req, nreq, clock, backoff, end_time, delay, held, conv>>

\* Client::wait_for_state up to the first poll of the retry future: the backoff
\* is built and end_time is set
WfsCall(machine, state, timeout) ==
    /\ pc = "idle"
    /\ NoLeaseHeld
    /\ pc' = "wfs_attempt"
    /\ call' = CallOf("wait_for_state", machine, state, timeout, None, machine.id)
    /\ clock' = 0
    /\ backoff' = NewBackoff(timeout, 0)
    /\ end_time' = 0 + timeout + GRACE
    /\ UNCHANGED <<req, nreq, cls, result, delay, log, value, held, fan, answer, conv>>

\* the retry closure up to the await of wait: time_left, then wait's request
WfsAttempt ==
    /\ pc = "wfs_attempt"
    /\ pc' = "wfs_inflight"
    /\ LET current_time == clock
           time_left == Min(SatSub(end_time, current_time), ATTEMPT_CAP)
       IN  req' = WaitRequest(call.machine, call.state, time_left)
    /\ nreq' = nreq + 1
    /\ UNCHANGED <<call, cls, result, clock, backoff, end_time, delay, log, value, held, fan, answer, conv>>

\* the attempt ends after d: Ok and a permanent error end wait_for_state, a
\* transient one asks the backoff for the next delay and ends it when there is none
WfsRespond(tr, d, random) ==
    /\ pc = "wfs_inflight"
    /\ d \in AttemptDurations(req.timeout)
    /\ LET e == make_machines_request_unit(tr, req.endpoint)
           now == clock + d
           nb == NextBackoff(backoff, now, random)
       IN  /\ clock' = now
           /\ cls' = ClassifierCall(tr, req.endpoint)
           /\ answer' = tr
           /\ log' = Append(log, [answer |-> tr.status_code, kind |-> e.kind])
           /\ IF e = Ok \/ ~IsTransient(e)
              THEN /\ pc' = "done"
                   /\ result' = e
                   /\ UNCHANGED <<backoff, delay>>
              ELSE /\ backoff' = nb.backoff
                   /\ delay' = nb.duration
                   /\ IF nb.some
                      THEN /\ pc' = "wfs_sleep"
                           /\ UNCHANGED result
                      ELSE /\ pc' = "done"
                           /\ result' = e
    /\ UNCHANGED <<call, req, nreq, end_time, value, held, fan, conv>>

\* the backoff sleep ends
WfsWake ==
    /\ pc = "wfs_sleep"
    /\ pc' = "wfs_attempt"
    /\ clock' = clock + delay
    /\ UNCHANGED <<call, req, nreq, cls, result, backoff, end_time, delay, log, value, held, fan, answer, conv>>

\* the caller takes the result
Return ==
    /\ pc = "done"
    /\ pc' = "idle"
    /\ call' = NoCall
    /\ req' = NoReq
    /\ nreq' = 0
    /\ cls' = NoCls
    /\ result' = Pending
    /\ clock' = 0
    /\ backoff' = NoBackoff
    /\ end_time' = 0
    /\ delay' = 0
    /\ log' = << >>
    /\ value' = NoValue
    /\ fan' = NoFan
    /\ answer' = NoAnswer
    /\ UNCHANGED <<held, conv>>

Next ==
    \/ \E m \in Machines, s \in OptionalStates, t \in WaitTimeouts : WaitCall(m, s, t)
    \/ \E tr \in TransportOutcomes : WaitRespond(tr)
    \/ \E m \in Machines : KillCall(m)
    \/ \E tr \in TransportOutcomes : KillRespond(tr)
    \/ \E op \in Ops : \E id \in OpIds(op), nonce \in OpNonces(op) : OpCall(op, id, nonce)
    \/ pc = "op_inflight" /\ \E tr \in OpOutcomes(call.op) : OpRespond(tr)
    \/ \E op \in {"list_into", "list_active_into"},
          vec \in {<< >>, <<Listed("destroyed")>>,
                   <<Listed("running_b"), Listed("release"), Listed("console")>>} :
             IntoCall(op, vec)
    \/ \E tr \in IntoOutcomes : IntoRespond(tr)
    \/ LfamCall
    \/ LfamAttempt
    \/ \E tr \in ListOutcomes, d \in ListDurations, r \in ListRandomChoices : LfamRespond(tr, d, r)
    \/ LfamWake
    \/ \E ids \in IdLists : GetManyCall(ids)
    \/ \E i \in fan.pending : \E tr \in GetOutcomes(fan.ids[i]) : GetManyRespond(i, tr)
    \/ \E s \in WfsStates, t \in WfsTimeouts : WfsCall(WfsMachine, s, t)
    \/ WfsAttempt
    \/ \E tr \in WfsOutcomes, d \in {0, Secs(1), Secs(2)}, r \in RandomChoices : WfsRespond(tr, d, r)
    \/ WfsWake
    \/ Return

Spec == Init /\ [][Next]_vars

\* The functions of the library that take no client: a run starts from one input
\* of one function and applies it
ConvInit ==
    /\ pc = "idle" /\ call = NoCall /\ req = NoReq /\ nreq = 0 /\ cls = NoCls
    /\ result = Pending /\ clock = 0 /\ backoff = NoBackoff /\ end_time = 0 /\ delay = 0
    /\ log = << >> /\ value = NoValue /\ held = None /\ fan = NoFan /\ answer = NoAnswer
    /\ \/ conv \in [fn : {"new", "new_from_socket"}, in : ClientSettings, mid : {None},
                     out : {None}, step : {0}]
       \/ \* the durations put into text: whole and broken seconds, minutes and
          \* hours, the values of test_duration_round_trip
          conv \in [fn : {"to_string"},
                    in : [secs : {0, 1, 9, 10, 59, 60, 61, 3600, 3661, 259380, 123456789},
                          nanos : {0, 1, 999, 1000, 1500, 10000, 35400000, 50000000,
                                   500000000, 999999999}],
                    mid : {None}, out : {None}, step : {0}]
       \/ \* the durations serialized, all of them below 2^63 ns: up to hours, and
          \* the longest one
          conv \in [fn : {"serialize"},
                    in : [secs : {<<0, 0>>, <<1, 0>>, <<3600, 0>>, <<223372036, 9>>},
                          nanos : {0, 1, 500000000, 854775807}],
                    mid : {None}, out : {None}, step : {0}]

ConvNext ==
    \/ Construct
    \/ DurationToString
    \/ DurationFromStr
    \/ GoSerialize
    \/ GoDeserialize

ConvSpec == ConvInit /\ [][ConvNext]_vars

\* every await of wait_for_state returns: the transport answers, the sleep ends
FairSpec ==
    /\ Spec
    /\ WF_vars(WfsAttempt)
    /\ WF_vars(\E tr \in WfsOutcomes, d \in {0, Secs(1), Secs(2)}, r \in RandomChoices : WfsRespond(tr, d, r))
    /\ WF_vars(WfsWake)

(***************************************************************************)
(* Properties.                                                             *)
(***************************************************************************)
IsWfs == call.op = "wait_for_state"
WfsDone == IsWfs /\ pc = "done"
HasRaw(e) == e.kind \in {"NotFound", "DesiredStateNotReached", "UnknownFlapsError"}

\* C1: in wait_for_state an attempt that fails with anything but
\* DesiredStateNotReached is the last one: the call is over, its result is that
\* error, and no request was sent after the one that failed.
C1_OnlyDesiredStateNotReachedRetried ==
    IsWfs =>
        \A i \in 1..Len(log) :
            (log[i].kind \notin {"Ok", "DesiredStateNotReached"}) =>
                /\ i = Len(log)
                /\ pc = "done"
                /\ result.kind = log[i].kind
                /\ nreq = i

\* wait_for_state answered NotFound on its first attempt has failed with it after one request
C1_Witness ==
    /\ WfsDone
    /\ result.kind = "NotFound"
    /\ nreq = 1
    /\ log[1].answer = 404

\* C2 (as claimed): when the remote answers the first N attempts with 408 and
\* attempt N+1 with a 2xx status, wait_for_state returns Ok after exactly N+1
\* requests; Ok is returned only after a 2xx answer, which is the last answer.
C2_ConvergesOnAttemptNPlus1 ==
    WfsDone =>
        /\ ( /\ Len(log) >= 1
             /\ \A i \in 1..(Len(log) - 1) : log[i].answer = 408
             /\ IsSuccess(log[Len(log)].answer) )
           => (result = Ok /\ nreq = Len(log))
        /\ result = Ok => (Len(log) >= 1 /\ IsSuccess(log[Len(log)].answer))
        /\ \A i \in 1..(Len(log) - 1) : ~IsSuccess(log[i].answer)

\* C3 (as claimed): wait_for_state returns no later than timeout + 100ms after its call.
C3_ElapsedWithinTimeoutPlusGrace ==
    WfsDone => clock <= call.timeout + GRACE

\* what wait_for_state ends with
C4_Outcome ==
    WfsDone =>
        /\ nreq >= 1
        /\ Len(log) = nreq
        /\ result.kind = log[Len(log)].kind
        /\ result.kind \notin {"Pending", "Panic"}
        /\ (result.kind = "DesiredStateNotReached") =>
              /\ result.desired_state = WaitState(call.state)
              /\ (clock > call.timeout \/ clock + delay > call.timeout)

\* C4: a wait_for_state call whose awaits return always ends; it ends with Ok, with
\* the permanent error, or with the DesiredStateNotReached of its last attempt
\* (carrying the requested state) once the budget of `timeout` does not cover the
\* next backoff interval.
C4_WaitForStateTerminates ==
    /\ [](C4_Outcome)
    /\ (pc \in {"wfs_attempt", "wfs_inflight", "wfs_sleep"}) ~> (pc = "done")

\* wait_for_state has given up against a remote that answered 408 more than once
C4_Witness ==
    /\ WfsDone
    /\ result.kind = "DesiredStateNotReached"
    /\ Len(log) >= 3
    /\ \A i \in 1..Len(log) : log[i].answer = 408

\* C5: the timeout parameter of a wait request is the requested duration clamped
\* into [1s, 60s] in whole seconds; 0, 1ms, 30s, 90s, 1000s give 1, 1, 30, 60, 60.
C5_WaitTimeoutClamped ==
    (req.suffix = "wait") =>
        /\ req.timeout >= 1
        /\ req.timeout <= 60
        /\ (call.op = "wait") =>
              /\ (call.timeout = 0) => req.timeout = 1
              /\ (call.timeout = Millis(1)) => req.timeout = 1
              /\ (call.timeout = Secs(30)) => req.timeout = 30
              /\ (call.timeout = Secs(90)) => req.timeout = 60
              /\ (call.timeout = Secs(1000)) => req.timeout = 60
              /\ (call.timeout < Secs(1)) => req.timeout = 1
              /\ (call.timeout > Secs(60)) => req.timeout = 60
              /\ (call.timeout >= Secs(1) /\ call.timeout <= Secs(60)) =>
                    /\ Secs(req.timeout) <= call.timeout
                    /\ call.timeout < Secs(req.timeout + 1)

\* wait was called with 90s and asked the remote for 60
C5_Witness ==
    /\ call.op = "wait"
    /\ pc = "wait_inflight"
    /\ call.timeout = Secs(90)
    /\ req.timeout = 60

\* C6 (as claimed): wait returns Ok for every answer with a 2xx status.
C6_WaitOkOnAny2xx ==
    (call.op = "wait" /\ pc = "done" /\ IsSuccess(log[1].answer)) => result = Ok

\* C7: a 408 classified under Wait(s) is DesiredStateNotReached carrying s, whatever
\* the body; nothing classified under Other is DesiredStateNotReached.
C7_WaitTimeoutIsDesiredStateNotReached ==
    cls.called =>
        /\ (cls.endpoint.tag = "Wait" /\ cls.status = 408) =>
              /\ cls.out.kind = "DesiredStateNotReached"
              /\ cls.out.desired_state = cls.endpoint.state
              /\ cls.out.desired_state = (IF call.state = None THEN "Started" ELSE call.state)
        /\ (cls.endpoint.tag = "Other") => cls.out.kind # "DesiredStateNotReached"

\* a 408 with a parseable envelope was classified under Wait(Stopped)
C7_Witness ==
    /\ cls.called
    /\ cls.endpoint = EndpointWait("Stopped")
    /\ cls.status = 408
    /\ cls.body.kind = "envelope"
    /\ cls.body.error = "boom"
    /\ cls.out.kind = "DesiredStateNotReached"

\* the envelope of a classified error is the one parsed from the body, or the one
\* synthesized from the raw body, the status and the request-id of the response
EnvelopeIntact ==
    /\ (cls.body.kind = "envelope") =>
          /\ cls.out.raw.status_code = cls.body.status_code
          /\ cls.out.raw.fly_request_id = cls.body.fly_request_id
          /\ cls.out.raw.error.text = cls.body.error
          /\ cls.out.raw.message = cls.body.message
    /\ (cls.body.kind # "envelope") =>
          /\ cls.out.raw.status_code = cls.status
          /\ cls.out.raw.fly_request_id = cls.fly_request_id
          /\ cls.out.raw.error.body = cls.body
          /\ cls.out.raw.error.status = cls.status
          /\ cls.out.raw.message = None

\* C8 (as claimed): every non-2xx status other than 404 and 408-under-Wait is
\* classified as UnknownFlapsError carrying the parsed or synthesized envelope.
C8_EveryOtherStatusIsUnknownFlapsError ==
    ( /\ cls.called
      /\ ~IsSuccess(cls.status)
      /\ cls.status # 404
      /\ ~(cls.endpoint.tag = "Wait" /\ cls.status = 408) )
    => (cls.out.kind = "UnknownFlapsError" /\ EnvelopeIntact)

\* C8 (amended): every 4xx or 5xx status other than 404 and 408-under-Wait is
\* classified as UnknownFlapsError carrying the parsed or synthesized envelope;
\* a status that is no 4xx or 5xx is UnexpectedHttpStatus carrying the status.
C8_Every4xx5xxOtherStatusIsUnknownFlapsError ==
    cls.called =>
        /\ ( /\ cls.status >= 400
             /\ cls.status <= 599
             /\ cls.status # 404
             /\ ~(cls.endpoint.tag = "Wait" /\ cls.status = 408) )
           => (cls.out.kind = "UnknownFlapsError" /\ EnvelopeIntact)
        /\ (cls.status < 400 \/ cls.status > 599) =>
              (cls.out.kind = "UnexpectedHttpStatus" /\ cls.out.status = cls.status)

\* a 503 without a JSON body was classified under Other
C8_Witness ==
    /\ cls.called
    /\ cls.status = 503
    /\ cls.endpoint.tag = "Other"
    /\ cls.body.kind = "text"
    /\ cls.out.kind = "UnknownFlapsError"

\* C9 (as claimed): the envelope of a classified error carries the fly-request-id of
\* the response whenever the response has one.
C9_RequestIdPreserved ==
    (cls.called /\ cls.fly_request_id # None /\ HasRaw(cls.out)) =>
        cls.out.raw.fly_request_id = cls.fly_request_id

\* C10: the classifier returns NotFound exactly for status 404, under Wait and
\* under Other alike.
C10_NotFoundIff404 ==
    cls.called => (cls.out.kind = "NotFound" <=> cls.status = 404)

\* a 404 was classified under Wait and is NotFound
C10_Witness ==
    /\ cls.called
    /\ cls.endpoint.tag = "Wait"
    /\ cls.status = 404
    /\ cls.out.kind = "NotFound"

(***************************************************************************)
(* Properties of the single-request operations and of the lease header.    *)
(***************************************************************************)
\* the status of the answer the call ended with (0 for a network error)
LastAnswer == log[Len(log)].answer

\* a status that is neither success nor a client or server error
IsNoErrorCode(a) == a # 0 /\ ~IsSuccess(a) /\ ~IsClientError(a) /\ ~IsServerError(a)

\* C11: for every operation, an answer whose status is informational (1xx),
\* redirection (3xx) or otherwise no 4xx/5xx error code makes the operation fail
\* with UnexpectedHttpStatus carrying that status; it is never decoded as a payload
C11_NoErrorCodeFailsUnexpectedHttpStatus ==
    (pc = "done" /\ Len(log) > 0 /\ IsNoErrorCode(LastAnswer))
        => (result.kind = "UnexpectedHttpStatus" /\ result.status = LastAnswer)

\* C12: map_flaps_error is invoked only with a status of 300 or more, so its
\* unreachable!() for a success status is never hit
C12_ClassifierOnlyFrom300 ==
    cls.called => (cls.status >= 300 /\ cls.out # Panic)

C12_Witness ==
    pc = "done" /\ call.op = "start" /\ cls.called /\ cls.status = 301

\* the answer is a 404 whose envelope carries the message "lease not found"
IsLeaseNotFoundAnswer ==
    /\ LastAnswer = 404
    /\ cls.body.kind = "envelope"
    /\ cls.body.message = "lease not found"

\* C13: find_lease returns Ok(None) exactly when the request fails with NotFound
\* and the envelope's message is exactly "lease not found"; every other NotFound
\* (another message, no message, a 404 body that is no envelope) is returned as the
\* same NotFound, every other error is propagated unchanged, and a success returns
\* Some(lease)
C13_FindLeaseSentinel ==
    (pc = "done" /\ call.op = "find_lease") =>
        /\ (result = Ok /\ value.tag = "no_lease") <=> IsLeaseNotFoundAnswer
        /\ (LastAnswer = 404 /\ ~IsLeaseNotFoundAnswer)
              => (result.kind = "NotFound" /\ result = cls.out /\ value = NoValue)
        /\ (cls.called /\ LastAnswer # 404) => (result = cls.out /\ value = NoValue)
        /\ LastAnswer = 0 => (result.kind = "Reqwest" /\ value = NoValue)
        /\ (result = Ok /\ ~IsLeaseNotFoundAnswer)
              => (value.tag = "some_lease" /\ value.lease = GrantedLease)
        /\ value.tag \in {"none", "no_lease", "some_lease"}

C13_Witness ==
    /\ pc = "done" /\ call.op = "find_lease"
    /\ result = Ok /\ value.tag = "no_lease" /\ IsLeaseNotFoundAnswer

\* the lease-nonce headers of the request
IsLeaseNonceHeader(h) == h.name = "fly-machine-lease-nonce"
LeaseNonceHeaders == SelectSeq(req.headers, IsLeaseNonceHeader)

\* a request of the call has been handed to the transport
RequestSent == pc # "idle" /\ nreq >= 1

\* C14: update, start, stop, restart, destroy and release_lease carry exactly one
\* fly-machine-lease-nonce header, the caller's nonce, when a nonce is supplied, and
\* none when it is None; refresh_lease always carries exactly one; no request
\* carries two; launch, get, list, wait, kill, exec, get_processes, find_lease and
\* acquire_lease carry none
C14_LeaseNonceHeader ==
    RequestSent =>
        /\ (call.op \in {"update", "start", "stop", "restart", "destroy", "release_lease"}
              /\ call.nonce # None)
              => LeaseNonceHeaders = <<[name |-> "fly-machine-lease-nonce", value |-> call.nonce]>>
        /\ (call.op \in {"update", "start", "stop", "restart", "destroy", "release_lease"}
              /\ call.nonce = None)
              => LeaseNonceHeaders = << >>
        /\ call.op = "refresh_lease"
              => (/\ call.nonce # None
                  /\ LeaseNonceHeaders
                        = <<[name |-> "fly-machine-lease-nonce", value |-> call.nonce]>>)
        /\ Len(LeaseNonceHeaders) <= 1
        /\ call.op \in {"launch", "get", "list", "wait", "kill", "exec", "get_processes",
                         "find_lease", "acquire_lease"}
              => LeaseNonceHeaders = << >>

C14_Witness ==
    /\ pc = "op_inflight" /\ call.op = "destroy" /\ call.nonce = "nonce-2"
    /\ Len(LeaseNonceHeaders) = 1 /\ LeaseNonceHeaders[1].value = "nonce-2"

\* C15: the client keeps no lease state across calls: whatever lease was granted
\* through it before, the lease header of a request is the call's own nonce, so a
\* mutating call with nonce None is sent without a lease header even while a lease
\* obtained through the same client is active
C15_NoLeaseStateAcrossCalls ==
    (RequestSent /\ held # None) =>
        /\ \A i \in 1..Len(req.headers) :
              IsLeaseNonceHeader(req.headers[i]) => req.headers[i].value = call.nonce
        /\ call.nonce = None => LeaseNonceHeaders = << >>

C15_Witness ==
    /\ held = "nonce-1"
    /\ pc = "op_inflight" /\ call.op = "stop" /\ call.nonce = None
    /\ req.headers = << >>

(***************************************************************************)
(* Properties of the retries and of the listings.                          *)
(***************************************************************************)
IsLfam == call.op = "list_fly_apps_machines"

\* the operations that are one call of make_machines_request
IsSingleRequestOp == call.op \in Ops \cup {"wait", "kill"}

\* the kind that the retrying operation re-sends after
RetriedKind ==
    IF call.op = "wait_for_state" THEN "DesiredStateNotReached" ELSE "NotFound"

\* re-sends happen in wait_for_state after DesiredStateNotReached and in
\* list_fly_apps_machines after NotFound only, get_many sends one request per id,
\* and no answer follows a network error
RetriesOnlyWhitelisted ==
    /\ IsSingleRequestOp => nreq <= 1
    /\ call.op = "get_many" => (nreq = Len(fan.ids) /\ Len(log) <= nreq)
    /\ (IsWfs \/ IsLfam) =>
          /\ nreq \in {Len(log), Len(log) + 1}
          /\ \A i \in 1..Len(log) : i < nreq => log[i].kind = RetriedKind
    /\ \A i \in 1..Len(log) : log[i].kind = "Reqwest" => (i = Len(log) /\ pc = "done")

PolicyInterval(k) ==
    CASE k = 1 -> 500000
      [] k = 2 -> 750000
      [] k = 3 -> 1125000
      [] k = 4 -> 1687500
      [] k = 5 -> 2531250
      [] k = 6 -> 3796875
      [] OTHER -> 5000000

\* the elapsed-time budget of 15 minutes does not cover the next delay
ListBudgetSpent == clock > 900000000 \/ clock + delay > 900000000

\* what both readings of C17 share: every answer before the last was NotFound, the
\* k-th delay lies within half its policy interval around it, the call ends with
\* what the last listing gave, at once on any error other than NotFound
LfamPolicy ==
    IsLfam =>
        /\ \A i \in 1..Len(log) : i < Len(log) => log[i].kind = "NotFound"
        /\ pc = "lfam_sleep" =>
              /\ log[Len(log)].kind = "NotFound"
              /\ nreq = Len(log)
              /\ 2 * delay >= PolicyInterval(nreq)
              /\ 2 * delay <= 3 * PolicyInterval(nreq)
        /\ pc = "done" =>
              /\ nreq = Len(log)
              /\ result.kind = log[Len(log)].kind
              /\ (result = Ok) <=> (value.tag = "fly_apps_machines")
              /\ (result = Ok) => (answer.ok /\ answer.body.kind = "machines")

\* C17 as stated: list_fly_apps_machines repeats the listing while the remote
\* answers NotFound, under the backoff policy of wait_for_state (initial interval
\* 500ms, multiplier 1.5, max interval 5s), returns the first successful listing,
\* and returns at once on any other error
C17_RepeatsWhileNotFound ==
    /\ LfamPolicy
    /\ (IsLfam /\ pc = "done") => result.kind # "NotFound"

\* C17 amended: as above, but the listing is repeated after NotFound only while the
\* backoff's default elapsed-time budget of 15 minutes covers the next delay; once
\* it does not, the call returns the last NotFound
C17_RepeatsWhileNotFoundWithinBudget ==
    /\ LfamPolicy
    /\ (IsLfam /\ pc = "done" /\ result.kind = "NotFound") => ListBudgetSpent
    /\ (IsLfam /\ pc = "lfam_sleep") => ~ListBudgetSpent

C17_Witness ==
    /\ IsLfam /\ pc = "done" /\ result = Ok
    /\ nreq = 8 /\ delay = 5000000

\* the listing the remote answered with
AnsweredListing == answer.body.payload.machines

\* the process group is fly_app_release_command or the legacy release_command
IsReleaseCommandGroup(m) ==
    process_group(m) \in {"fly_app_release_command", "release_command"}

\* a console machine of the platform: version v2, not destroyed or being
\* destroyed, process group fly_app_console
IsPlatformConsole(m) ==
    /\ m.metadata /\ m.fly_platform_version = "v2"
    /\ m.state \notin {"Destroyed", "Destroying"}
    /\ process_group(m) = "fly_app_console"

KeptByFlyApps(m) == ~IsReleaseCommandGroup(m) /\ ~IsPlatformConsole(m)

C19_OnlyLivePlatformMachines ==
    (IsLfam /\ pc = "done" /\ result = Ok) =>
        \A i \in 1..Len(value.machines) :
            LET m == value.machines[i]
            IN  /\ m.metadata /\ m.fly_platform_version = "v2"
                /\ m.state \notin {"Destroyed", "Destroying"}
                /\ ~IsPlatformConsole(m)

KeptByListActive(m) ==
    /\ ~IsReleaseCommandGroup(m)
    /\ ~IsPlatformConsole(m)
    /\ m.state \notin {"Destroyed", "Destroying"}

\* C20: list_active returns exactly the machines of the listing, in listing order,
\* that are no release-command machines, no platform console machines and not
\* Destroyed or Destroying; of one destroyed, one release-command and two plain
\* running machines it returns the two running ones
C20_ListActiveFilter ==
    (call.op = "list_active" /\ pc = "done" /\ result = Ok) =>
        /\ value.machines = SelectSeq(AnsweredListing, KeptByListActive)
        /\ AnsweredListing = ExampleListing
              => value.machines = <<Listed("running_a"), Listed("running_b")>>

C20_Witness ==
    /\ call.op = "list_active" /\ pc = "done" /\ result = Ok
    /\ AnsweredListing = ExampleListing
    /\ value.machines = <<Listed("running_a"), Listed("running_b")>>

(***************************************************************************)
(* Get of many machines: the join of the fetches                            *)
(***************************************************************************)
IsGetMany == call.op = "get_many"

\* the answers so far that were machines
IsMachineAnswer(l) == l.kind = "Ok"
FetchedSoFar == SelectSeq(log, IsMachineAnswer)

C30_GetManyKeepsInputOrder ==
    (IsGetMany /\ pc = "done" /\ result = Ok) =>
        /\ Len(value.machines) = Len(fan.ids)
        /\ \A i \in 1..Len(fan.ids) :
              /\ value.machines[i] = Fetched(fan.ids[i])
              /\ value.machines[i].id = fan.ids[i]

\* two different machines, the second one answered first
C30_Witness ==
    /\ IsGetMany
    /\ pc = "done"
    /\ result = Ok
    /\ fan.ids = <<"m1", "m2">>
    /\ fan.order = <<2, 1>>
    /\ value.machines[1].id = "m1"
    /\ value.machines[2].id = "m2"

(***************************************************************************)
(* The wait request                                                         *)
(***************************************************************************)
\* C27: every wait request sent by wait_for_state asks for a timeout of 1 or 2
\* seconds, whatever the timeout of the caller.
C27_WfsTimeoutParameterOneOrTwo ==
    (IsWfs /\ RequestSent) => (req.suffix = "wait" /\ req.timeout \in {1, 2})

\* a caller's timeout of zero still asks for one second
C27_Witness ==
    /\ IsWfs
    /\ call.timeout = 0
    /\ pc = "wfs_inflight"
    /\ req.timeout = 1

\* the serde name of a state
WireName(state) ==
    CASE state = "Created" -> "created"
      [] state = "Started" -> "started"
      [] state = "Stopped" -> "stopped"
      [] state = "Destroying" -> "destroying"
      [] state = "Destroyed" -> "destroyed"

\* the state a wait call asks for
AskedState == IF call.state = None THEN "Started" ELSE call.state

\* C28: the instance_id of a wait request is the version of the snapshot when it
\* has one and its instance_id otherwise; its state is the wire name of the desired
\* state, Started when none is given; the DesiredStateNotReached of the call
\* carries that state.
C28_WaitRequestParameters ==
    (call.op \in {"wait", "wait_for_state"} /\ RequestSent) =>
        /\ req.instance_id = (IF call.machine.version # None
                              THEN call.machine.version
                              ELSE call.machine.instance_id)
        /\ req.state = WireName(AskedState)
        /\ (pc = "done" /\ result.kind = "DesiredStateNotReached") =>
              result.desired_state = AskedState

\* a snapshot with a version, no desired state given, the wait timed out
C28_Witness ==
    /\ call.op = "wait"
    /\ call.machine.version = "ver-2"
    /\ call.state = None
    /\ pc = "done"
    /\ result.kind = "DesiredStateNotReached"
    /\ result.desired_state = "Started"
    /\ req.instance_id = "ver-2"
    /\ req.state = "started"

(***************************************************************************)
(* Update without a machine id                                              *)
(***************************************************************************)
\* C29: update of a request without an id fails with NoMachineId and hands nothing
\* to the transport, with a nonce and without one.
C29_UpdateWithoutIdSendsNothing ==
    (call.op = "update" /\ call.id = None /\ pc # "idle") =>
        /\ pc = "done"
        /\ result.kind = "NoMachineId"
        /\ nreq = 0
        /\ req = NoReq
        /\ log = << >>

\* the call was made with a nonce
C29_Witness ==
    /\ call.op = "update"
    /\ call.id = None
    /\ call.nonce = "nonce-1"
    /\ pc = "done"
    /\ result.kind = "NoMachineId"
    /\ nreq = 0

(***************************************************************************)
(* The URL of a request                                                     *)
(***************************************************************************)
\* the segments that follow the machine id in the path the operation means
SuffixPath ==
    CASE req.suffix = "" -> << >>
      [] req.suffix = "lease/refresh" -> <<"lease", "refresh">>
      [] OTHER -> <<req.suffix>>

\* C21: the URL of every request about a machine has the path
\* /v1/apps/<app_name>/machines/<id> followed by the suffix of the operation: the
\* machines segment is kept.
C21_MachinePathKeepsMachinesSegment ==
    (RequestSent /\ req.machine_id # "") =>
        req.url = <<"v1", "apps", APP_NAME, "machines", req.machine_id>> \o SuffixPath

(***************************************************************************)
(* The listings that fill a vector of the caller                            *)
(***************************************************************************)
\* the owning listing of an in-place one
OwningVariant == IF call.op = "list_into" THEN "list" ELSE "list_active"

\* C24: list_into and list_active_into succeed exactly when list and list_active
\* succeed on the same answer, fail with the same error, and on success leave in
\* the vector the list the owning variant returns, nothing of its prior content.
C24_InPlaceListingsAgreeWithOwning ==
    (call.op \in {"list_into", "list_active_into"} /\ pc = "done") =>
        /\ result = OpResult(OwningVariant, answer).err
        /\ (result = Ok) => value.machines = OpResult(OwningVariant, answer).value.machines

(***************************************************************************)
(* Construction                                                             *)
(***************************************************************************)
Constructed == conv.fn \in {"new", "new_from_socket"} /\ conv.step = 1

\* the name the constructor works with: the one given, else the environment's
GivenAppName == IF conv.in.app_name.some THEN conv.in.app_name ELSE conv.in.env_app_name

HasForbiddenChar ==
    /\ GivenAppName.some
    /\ \E i \in 1..Len(GivenAppName.name) :
          GivenAppName.name[i] = "/" \/ GivenAppName.name[i] = ":" \/ GivenAppName.name[i] = "\\"

\* the base URL the constructor works with parses
BaseUrlParses ==
    conv.fn = "new_from_socket" \/ conv.in.base_url.parses

\* C22 as stated: construction fails with InvalidAppName exactly when the app name
\* holds '/', ':' or '\', with MissingAppName when no name is given and none is in
\* the environment, and no client exists for an invalid name.
C22_AppNameValidation ==
    Constructed =>
        /\ (conv.out.kind = "InvalidAppName") <=> HasForbiddenChar
        /\ (~GivenAppName.some) => conv.out.kind = "MissingAppName"
        /\ HasForbiddenChar => conv.out.kind # "Client"

\* C22 amended: the same when the base URL parses, which new checks first; a
\* base URL that does not parse fails new with InvalidBaseUrl whatever the name.
C22_AppNameValidationAfterBaseUrl ==
    Constructed =>
        /\ BaseUrlParses =>
              /\ (conv.out.kind = "InvalidAppName") <=> HasForbiddenChar
              /\ (conv.out.kind = "MissingAppName") <=> (~GivenAppName.some)
        /\ ~BaseUrlParses => conv.out.kind = "InvalidBaseUrl"
        /\ HasForbiddenChar => conv.out.kind # "Client"
        /\ (conv.out.kind = "Client") => GivenAppName.some

\* new rejected my\app although the environment holds a valid name
C22_Witness ==
    /\ Constructed
    /\ conv.fn = "new"
    /\ conv.in.app_name = [some |-> TRUE, name |-> <<"m", "y", "\\", "a", "p", "p">>]
    /\ conv.in.env_app_name = [some |-> TRUE, name |-> <<"e", "n", "v">>]
    /\ conv.out.kind = "InvalidAppName"

(***************************************************************************)
(* Durations                                                                *)
(***************************************************************************)
\* C25: for every duration d, parsing the text to_string gives for d yields d.
C25_FlyctlDurationRoundTrips ==
    (conv.fn = "to_string" /\ conv.step = 2) => (conv.out.ok /\ conv.out.d = conv.in)

\* C26: a GoDuration is serialized as its number of nanoseconds, and the
\* serialized value of a duration below 2^63 ns deserializes to that duration.
C26_GoDurationRoundTrips ==
    /\ (conv.fn = "serialize" /\ conv.step >= 1) =>
          conv.mid = <<conv.in.nanos, conv.in.secs[1], conv.in.secs[2]>>
    /\ (conv.fn = "serialize" /\ conv.step = 2) => conv.out = conv.in

====
